---------------------------- MODULE Spec2Model ----------------------------
(***************************************************************************)
(* Pricing engine of the pump.fun trading bot (src/src/cal.rs).            *)
(*                                                                         *)
(* The quote functions are pure integer functions over u64 with u128       *)
(* intermediates.  The model keeps the machine arithmetic (narrowing       *)
(* casts, saturating subtraction, checked / wrapping addition, division    *)
(* by zero) but works on a word of WordBits bits instead of 64, with the   *)
(* double word standing for u128.  WordBits is chosen so that the two      *)
(* facts about 10_000 that hold for 64 bits also hold here:                *)
(*     10_000 <= 2^WordBits      (a fee can exceed the word)               *)
(*     10_000 <= 2^(WordBits+1)  (ceil_div cannot overflow the double word)*)
(***************************************************************************)
EXTENDS Integers, Naturals, Sequences, FiniteSets, TLC

VARIABLES
    global,           \* the caller's Global (protocol parameters)
    bonding_curve,    \* the caller's Option<BondingCurve> snapshot
    overflow_checks,  \* build profile: TRUE = debug (overflow panics), FALSE = release (wraps)
    last,             \* record of the most recent call and what it returned
    prev,             \* record of the call before it
    account_data,     \* the bytes of the bonding curve account handed to the decoder
    sell              \* run_pump_sell: its position, its locals and the accounts it reads

vars == <<global, bonding_curve, overflow_checks, last, prev, account_data, sell>>

----------------------------------------------------------------------------
(* Machine integers *)

WordBits == 14

U64_MAX == 2^WordBits - 1

\* `x as u64`: narrowing cast, keeps the low word
AsU64(x) == x % (U64_MAX + 1)

\* u64::saturating_sub
saturating_sub(a, b) == IF a >= b THEN a - b ELSE 0

\* std::cmp::min
min(a, b) == IF a <= b THEN a ELSE b

\* outcome of a call: a value, a panic, or an Err(..)
Ok(v) == [panic |-> FALSE, err |-> FALSE, val |-> v, val2 |-> 0]

Ok2(v, w) == [panic |-> FALSE, err |-> FALSE, val |-> v, val2 |-> w]

Panicked == [panic |-> TRUE, err |-> FALSE, val |-> 0, val2 |-> 0]

Failed == [panic |-> FALSE, err |-> TRUE, val |-> 0, val2 |-> 0]

\* u64 `+`: panics on overflow when overflow checks are compiled in,
\* wraps otherwise
u64_add(a, b) ==
    IF a + b <= U64_MAX THEN Ok(a + b)
    ELSE IF overflow_checks THEN Panicked
    ELSE Ok(AsU64(a + b))

----------------------------------------------------------------------------
(* Data *)

\* Pubkey::default(), the all-zero identity
Pubkey_default == 0

Pubkeys == {Pubkey_default, 1}

None == [some |-> FALSE]

Some(bc) == [some |-> TRUE, val |-> bc]

\* run_pump_sell has not been called
NotSelling == [pc |-> "not_called"]

\* Global::default(); the reserves are written in units of 10^11 token
\* units and 2 * 10^6 lamports so that they fit the modelled word (every
\* default reserve is a whole number of these units), the fee rates are
\* the program's
Global_default ==
    [initial_virtual_token_reserves |-> 10730,
     initial_virtual_sol_reserves   |-> 15000,
     initial_real_token_reserves    |-> 7931,
     token_total_supply             |-> 10000,
     fee_basis_points               |-> 100,
     creator_fee_basis_points       |-> 100]

\* a curve created with no virtual SOL behind it
new_bonding_curve_unfunded(g) ==
    [virtual_token_reserves |-> g.initial_virtual_token_reserves,
     virtual_sol_reserves   |-> 0,
     real_token_reserves    |-> g.initial_real_token_reserves,
     real_sol_reserves      |-> 0,
     token_total_supply     |-> g.token_total_supply,
     complete               |-> FALSE,
     creator                |-> Pubkey_default]

new_bonding_curve(g) ==
    [virtual_token_reserves |-> g.initial_virtual_token_reserves,
     virtual_sol_reserves   |-> g.initial_virtual_sol_reserves,
     real_token_reserves    |-> g.initial_real_token_reserves,
     real_sol_reserves      |-> 0,
     token_total_supply     |-> g.token_total_supply,
     complete               |-> FALSE,
     creator                |-> Pubkey_default]

\* the `match bonding_curve { Some(bc) => (bc.clone(), false),
\*                            None => (new_bonding_curve(global), true) }`
curve_of(g, bc) == IF bc.some THEN bc.val ELSE new_bonding_curve(g)

is_new_of(bc) == ~bc.some

----------------------------------------------------------------------------
(* Fee calculator *)

BPS_DENOMINATOR == 10000

ceil_div(a, b) == (a + b - 1) \div b

\* the fee taken in percent instead of basis points
compute_fee_percent(amount, fee_basis_points) ==
    AsU64(ceil_div(amount * fee_basis_points, 100))

compute_fee(amount, fee_basis_points) ==
    AsU64(ceil_div(amount * fee_basis_points, BPS_DENOMINATOR))

\* get_fee with the creator fee charged on every curve
get_fee_always_creator(g, curve, amount, is_new_bonding_curve) ==
    u64_add(compute_fee(amount, g.fee_basis_points),
            compute_fee(amount, g.creator_fee_basis_points))

\* get_fee with the eligibility test written with && instead of ||
get_fee_and(g, curve, amount, is_new_bonding_curve) ==
    LET platform_fee == compute_fee(amount, g.fee_basis_points)
        creator_fee ==
            IF is_new_bonding_curve /\ curve.creator # Pubkey_default
            THEN compute_fee(amount, g.creator_fee_basis_points)
            ELSE 0
    IN u64_add(platform_fee, creator_fee)

get_fee(g, curve, amount, is_new_bonding_curve) ==
    LET platform_fee == compute_fee(amount, g.fee_basis_points)
        creator_fee ==
            IF is_new_bonding_curve \/ curve.creator # Pubkey_default
            THEN compute_fee(amount, g.creator_fee_basis_points)
            ELSE 0
    IN u64_add(platform_fee, creator_fee)

----------------------------------------------------------------------------
(* Pricing engine *)

\* get_tokens_for_sol without the cap at real_token_reserves
get_tokens_for_sol_nocap(g, bc, sol_amount) ==
    IF sol_amount = 0 THEN Ok(0)
    ELSE
    LET curve == curve_of(g, bc)
        is_new == is_new_of(bc)
    IN  IF curve.virtual_token_reserves = 0 THEN Ok(0)
        ELSE
        LET fee == get_fee(g, curve, sol_amount, is_new)
        IN  IF fee.panic THEN Panicked
            ELSE
            LET sol_after_fee == saturating_sub(sol_amount, fee.val)
            IN  IF sol_after_fee = 0 THEN Ok(0)
                ELSE Ok(AsU64((curve.virtual_token_reserves * sol_after_fee)
                            \div (curve.virtual_sol_reserves + sol_after_fee)))

get_tokens_for_sol(g, bc, sol_amount) ==
    IF sol_amount = 0 THEN Ok(0)
    ELSE
    LET curve == curve_of(g, bc)
        is_new == is_new_of(bc)
    IN  IF curve.virtual_token_reserves = 0 THEN Ok(0)
        ELSE
        LET fee == get_fee(g, curve, sol_amount, is_new)
        IN  IF fee.panic THEN Panicked
            ELSE
            LET sol_after_fee == saturating_sub(sol_amount, fee.val)
            IN  IF sol_after_fee = 0 THEN Ok(0)
                ELSE
                LET tokens_out ==
                        (curve.virtual_token_reserves * sol_after_fee)
                            \div (curve.virtual_sol_reserves + sol_after_fee)
                IN  Ok(min(AsU64(tokens_out), curve.real_token_reserves))

\* the body of get_sol_for_tokens with its three deliberate details as
\* switches: the zero-amount guard, the denominator guard, the + 1
sol_for_tokens_variant(g, bc, token_amount, zero_guard, denom_guard, round_up) ==
    IF zero_guard /\ token_amount = 0 THEN Ok(0)
    ELSE
    LET curve == curve_of(g, bc)
        is_new == is_new_of(bc)
    IN  IF curve.virtual_token_reserves = 0 THEN Ok(0)
        ELSE
        LET min_amount == min(token_amount, curve.real_token_reserves)
            denominator == saturating_sub(curve.virtual_token_reserves, min_amount)
        IN  IF denominator = 0
            THEN (IF denom_guard THEN Ok(U64_MAX) ELSE Panicked)
            ELSE
            LET sol_cost128 ==
                    (curve.virtual_sol_reserves * min_amount) \div denominator
                        + (IF round_up THEN 1 ELSE 0)
                sol_cost == AsU64(sol_cost128)
                fee == get_fee(g, curve, sol_cost, is_new)
            IN  IF fee.panic THEN Panicked
                ELSE u64_add(sol_cost, fee.val)

\* get_sol_for_tokens without the early return on a zero amount
get_sol_for_tokens_nozero(g, bc, token_amount) ==
    sol_for_tokens_variant(g, bc, token_amount, FALSE, TRUE, TRUE)

\* get_sol_for_tokens without the denominator check: it divides by zero
get_sol_for_tokens_nosentinel(g, bc, token_amount) ==
    sol_for_tokens_variant(g, bc, token_amount, TRUE, FALSE, TRUE)

\* get_sol_for_tokens without the + 1
get_sol_for_tokens_floor(g, bc, token_amount) ==
    sol_for_tokens_variant(g, bc, token_amount, TRUE, TRUE, FALSE)

get_sol_for_tokens(g, bc, token_amount) ==
    IF token_amount = 0 THEN Ok(0)
    ELSE
    LET curve == curve_of(g, bc)
        is_new == is_new_of(bc)
    IN  IF curve.virtual_token_reserves = 0 THEN Ok(0)
        ELSE
        LET min_amount == min(token_amount, curve.real_token_reserves)
            denominator == saturating_sub(curve.virtual_token_reserves, min_amount)
        IN  IF denominator = 0 THEN Ok(U64_MAX)
            ELSE
            LET sol_cost128 ==
                    (curve.virtual_sol_reserves * min_amount) \div denominator + 1
                sol_cost == AsU64(sol_cost128)
                fee == get_fee(g, curve, sol_cost, is_new)
            IN  IF fee.panic THEN Panicked
                ELSE u64_add(sol_cost, fee.val)

\* get_sol_from_tokens pricing against the token side of the pool
get_sol_from_tokens_swapped(g, bc, token_amount) ==
    IF token_amount = 0 THEN Ok(0)
    ELSE
    LET curve == curve_of(g, bc)
        is_new == is_new_of(bc)
    IN  IF curve.virtual_token_reserves = 0 \/ curve.virtual_sol_reserves = 0
        THEN Ok(0)
        ELSE
        LET sol_out == AsU64((curve.virtual_token_reserves * token_amount)
                            \div (curve.virtual_sol_reserves + token_amount))
            fee == get_fee(g, curve, sol_out, is_new)
        IN  IF fee.panic THEN Panicked
            ELSE Ok(saturating_sub(sol_out, fee.val))

\* get_sol_from_tokens with the migrated-curve check reading the complete
\* flag as well
get_sol_from_tokens_complete(g, bc, token_amount) ==
    IF token_amount = 0 THEN Ok(0)
    ELSE
    LET curve == curve_of(g, bc)
        is_new == is_new_of(bc)
    IN  IF curve.complete \/ curve.virtual_token_reserves = 0
               \/ curve.virtual_sol_reserves = 0
        THEN Ok(0)
        ELSE
        LET sol_out == AsU64((curve.virtual_sol_reserves * token_amount)
                            \div (curve.virtual_token_reserves + token_amount))
            fee == get_fee(g, curve, sol_out, is_new)
        IN  IF fee.panic THEN Panicked
            ELSE Ok(saturating_sub(sol_out, fee.val))

get_sol_from_tokens(g, bc, token_amount) ==
    IF token_amount = 0 THEN Ok(0)
    ELSE
    LET curve == curve_of(g, bc)
        is_new == is_new_of(bc)
    IN  IF curve.virtual_token_reserves = 0 \/ curve.virtual_sol_reserves = 0
        THEN Ok(0)
        ELSE
        LET sol_out == AsU64((curve.virtual_sol_reserves * token_amount)
                            \div (curve.virtual_token_reserves + token_amount))
            fee == get_fee(g, curve, sol_out, is_new)
        IN  IF fee.panic THEN Panicked
            ELSE Ok(saturating_sub(sol_out, fee.val))

\* quote_sell applying the fresh-curve fee rule
quote_sell_fresh(fetched, token_amount) ==
    IF ~fetched.some THEN Failed
    ELSE
    LET curve == fetched.val
        g == Global_default
    IN  IF curve.virtual_token_reserves + token_amount = 0 THEN Panicked
        ELSE
        LET gross_sol == AsU64((curve.virtual_sol_reserves * token_amount)
                            \div (curve.virtual_token_reserves + token_amount))
            fee == get_fee(g, curve, gross_sol, TRUE)
        IN  IF fee.panic THEN Panicked
            ELSE Ok2(saturating_sub(gross_sol, fee.val), fee.val)

\* quote_sell(rpc, mint, token_amount): `fetched` is what
\* fetch_bonding_curve(rpc, mint) yields, None standing for its Err
quote_sell(fetched, token_amount) ==
    IF ~fetched.some THEN Failed
    ELSE
    LET curve == fetched.val
        g == Global_default
    IN  IF curve.virtual_token_reserves + token_amount = 0 THEN Panicked
        ELSE
        LET gross_sol == AsU64((curve.virtual_sol_reserves * token_amount)
                            \div (curve.virtual_token_reserves + token_amount))
            fee == get_fee(g, curve, gross_sol, FALSE)
        IN  IF fee.panic THEN Panicked
            ELSE Ok2(saturating_sub(gross_sol, fee.val), fee.val)

----------------------------------------------------------------------------
(* Inputs *)

\* amounts a caller passes to a quote
Amounts == {0, 1, 2, 100, 101, 1000, U64_MAX}

\* amounts and rates the fee calculator is exercised on
FeeAmounts == {0, 1, 2, 100, 101, 10 * 2^(WordBits - 4), U64_MAX}

BpsSet == {0, 1, 100, BPS_DENOMINATOR, 16000, U64_MAX}

\* (fee_basis_points, creator_fee_basis_points) of the parameters the
\* quotes are exercised on
FeePairs == {<<0, 0>>, <<100, 0>>, <<100, 100>>, <<BPS_DENOMINATOR, 0>>}

GlobalWith(fbp, cbp) ==
    [Global_default EXCEPT !.fee_basis_points = fbp,
                           !.creator_fee_basis_points = cbp]

Globals == {GlobalWith(p[1], p[2]) : p \in FeePairs}

FeeGlobals == {GlobalWith(f, c) : f \in BpsSet, c \in {0, 100, U64_MAX}}

Curves ==
    [virtual_token_reserves : {0, 2, 10730},
     virtual_sol_reserves   : {0, 300, U64_MAX},
     real_token_reserves    : {1, 7931},
     real_sol_reserves      : {0},
     token_total_supply     : {10000},
     complete               : {FALSE},
     creator                : Pubkeys]

CurveOpts == {None} \cup {Some(c) : c \in Curves}

FeeCurveOpts ==
    {None} \cup {Some([new_bonding_curve(Global_default) EXCEPT !.creator = k]) :
                    k \in Pubkeys}

----------------------------------------------------------------------------
(* Calls *)

QuoteOps == {"get_tokens_for_sol", "get_sol_for_tokens", "get_sol_from_tokens"}

Call(op, arg, arg2, chained, out) ==
    [op |-> op, arg |-> arg, arg2 |-> arg2, chained |-> chained, out |-> out]

NoCall == Call("none", 0, 0, FALSE, Ok(0))

\* a panic unwinds the process: nothing is called after it
Running == ~last.out.panic

\* the caller may feed the value a quote returned into the next quote
\* (main.rs: get_sol_for_tokens is called on the result of get_tokens_for_sol)
CanChain == last.op \in QuoteOps /\ ~last.chained /\ ~last.out.panic

\* <<chained, amount>>: a fresh amount, or the value the last quote returned
ArgChoices ==
    {<<FALSE, a>> : a \in Amounts}
        \cup (IF CanChain THEN {<<TRUE, last.out.val>>} ELSE {})

\* a quote that takes the tokens it quoted out of the caller's curve
Record_consuming(c) ==
    /\ last' = c
    /\ prev' = last
    /\ bonding_curve' =
           IF bonding_curve.some /\ c.op = "get_tokens_for_sol"
           THEN Some([bonding_curve.val EXCEPT !.real_token_reserves =
                          saturating_sub(@, c.out.val)])
           ELSE bonding_curve
    /\ UNCHANGED <<global, overflow_checks, account_data, sell>>

Record(c) ==
    /\ last' = c
    /\ prev' = last
    /\ UNCHANGED <<global, bonding_curve, overflow_checks, account_data, sell>>

GetTokensForSol ==
    /\ Running
    /\ \E c \in ArgChoices :
        LET sol_amount == c[2]
        IN Record(Call("get_tokens_for_sol", sol_amount, 0, c[1],
                       get_tokens_for_sol(global, bonding_curve, sol_amount)))

GetSolForTokens ==
    /\ Running
    /\ \E c \in ArgChoices :
        LET token_amount == c[2]
        IN Record(Call("get_sol_for_tokens", token_amount, 0, c[1],
                       get_sol_for_tokens(global, bonding_curve, token_amount)))

GetSolFromTokens ==
    /\ Running
    /\ \E c \in ArgChoices :
        LET token_amount == c[2]
        IN Record(Call("get_sol_from_tokens", token_amount, 0, c[1],
                       get_sol_from_tokens(global, bonding_curve, token_amount)))

\* quote_sell fetches the curve itself; the account it reads holds the
\* snapshot, and a missing account is the fetch error
QuoteSell ==
    /\ Running
    /\ \E token_amount \in Amounts :
        Record(Call("quote_sell", token_amount, 0, FALSE,
                    quote_sell(bonding_curve, token_amount)))

\* the compute_fee step of get_fee, on either of the two rates
ComputeFee ==
    /\ Running
    /\ \E amount \in FeeAmounts,
          bps \in {global.fee_basis_points, global.creator_fee_basis_points} :
        Record(Call("compute_fee", amount, bps, FALSE,
                    Ok(compute_fee(amount, bps))))

\* the get_fee step of a quote, called as the quotes call it
GetFee ==
    /\ Running
    /\ \E amount \in FeeAmounts :
        Record(Call("get_fee", amount, 0, FALSE,
                    get_fee(global, curve_of(global, bonding_curve), amount,
                            is_new_of(bonding_curve))))

----------------------------------------------------------------------------
(* Specifications *)

Init ==
    /\ global \in Globals
    /\ bonding_curve \in CurveOpts
    /\ overflow_checks \in BOOLEAN
    /\ last = NoCall
    /\ prev = NoCall
    /\ account_data = <<>>
    /\ sell = NotSelling

Next == GetTokensForSol \/ GetSolForTokens \/ GetSolFromTokens \/ QuoteSell

Spec == Init /\ [][Next]_vars

InitFee ==
    /\ global \in FeeGlobals
    /\ bonding_curve \in FeeCurveOpts
    /\ overflow_checks \in BOOLEAN
    /\ last = NoCall
    /\ prev = NoCall
    /\ account_data = <<>>
    /\ sell = NotSelling

NextFee == ComputeFee \/ GetFee

SpecFee == InitFee /\ [][NextFee]_vars

TypeOK ==
    /\ overflow_checks \in BOOLEAN
    /\ last.out.val \in 0..U64_MAX
    /\ last.out.val2 \in 0..U64_MAX
    /\ last.arg \in 0..U64_MAX

----------------------------------------------------------------------------
(* The complete flag: the same quotes on snapshots that differ in it *)

FlagCurves ==
    [virtual_token_reserves : {0, 10730},
     virtual_sol_reserves   : {0, 300},
     real_token_reserves    : {1, 7931},
     real_sol_reserves      : {0},
     token_total_supply     : {10000},
     complete               : BOOLEAN,
     creator                : Pubkeys]

FlagAmounts == {0, 1, 100, 1000}

\* the quote named op
QuoteBy(op, g, bc, amount) ==
    CASE op = "get_tokens_for_sol" -> get_tokens_for_sol(g, bc, amount)
      [] op = "get_sol_for_tokens" -> get_sol_for_tokens(g, bc, amount)
      [] op = "get_sol_from_tokens" -> get_sol_from_tokens(g, bc, amount)

\* a call record that also keeps the complete flag of the curve passed
CallOn(op, arg, out, complete) ==
    [op |-> op, arg |-> arg, arg2 |-> 0, chained |-> FALSE, out |-> out,
     complete |-> complete]

\* the caller passes the same snapshot with the complete flag set or cleared
SetComplete ==
    /\ Running
    /\ \E flag \in BOOLEAN :
        /\ flag # bonding_curve.val.complete
        /\ bonding_curve' = Some([bonding_curve.val EXCEPT !.complete = flag])
    /\ UNCHANGED <<global, overflow_checks, last, prev, account_data, sell>>

QuoteOnSnapshot ==
    /\ Running
    /\ \E op \in QuoteOps, amount \in FlagAmounts :
        Record(CallOn(op, amount, QuoteBy(op, global, bonding_curve, amount),
                      bonding_curve.val.complete))

InitFlag ==
    /\ global \in Globals
    /\ bonding_curve \in {Some(c) : c \in FlagCurves}
    /\ overflow_checks \in BOOLEAN
    /\ last = NoCall
    /\ prev = NoCall
    /\ account_data = <<>>
    /\ sell = NotSelling

NextFlag == SetComplete \/ QuoteOnSnapshot

SpecFlag == InitFlag /\ [][NextFlag]_vars

----------------------------------------------------------------------------
(* The quotes on the default parameters (mod tests) *)

\* 1 SOL = 1_000_000_000 lamports, in units of 2 * 10^6 lamports
TestSolAmount == 500

\* 1M tokens = 1_000_000_000_000 token units, in units of 10^11
TestTokenAmount == 10

DefaultAmounts == {TestSolAmount, TestTokenAmount}

\* the curve the tests build, or no curve
DefaultCurveOpts == {None, Some(new_bonding_curve(Global_default))}

test_buy_calculation ==
    /\ Running
    /\ \E sol_amount \in DefaultAmounts :
        Record(Call("get_tokens_for_sol", sol_amount, 0, FALSE,
                    get_tokens_for_sol(global, bonding_curve, sol_amount)))

test_sell_calculation ==
    /\ Running
    /\ \E token_amount \in DefaultAmounts :
        Record(Call("get_sol_from_tokens", token_amount, 0, FALSE,
                    get_sol_from_tokens(global, bonding_curve, token_amount)))

test_inverse_calculation ==
    /\ Running
    /\ \E desired_tokens \in DefaultAmounts :
        Record(Call("get_sol_for_tokens", desired_tokens, 0, FALSE,
                    get_sol_for_tokens(global, bonding_curve, desired_tokens)))

InitDefaults ==
    /\ global = Global_default
    /\ bonding_curve \in DefaultCurveOpts
    /\ overflow_checks \in BOOLEAN
    /\ last = NoCall
    /\ prev = NoCall
    /\ account_data = <<>>
    /\ sell = NotSelling

NextDefaults ==
    test_buy_calculation \/ test_sell_calculation \/ test_inverse_calculation

SpecDefaults == InitDefaults /\ [][NextDefaults]_vars

----------------------------------------------------------------------------
(* Curve state decoder *)

\* A byte has ByteBits bits here, and the decoder's u64 is eight of them:
\* the layout, the offsets and the little-endian order are the program's.
ByteBits == 2

U8_MAX == 2^ByteBits - 1

Bytes == 0..U8_MAX

\* u64::from_le_bytes
RECURSIVE le_value(_, _)
le_value(b, i) ==
    IF i > Len(b) THEN 0 ELSE b[i] + (U8_MAX + 1) * le_value(b, i + 1)

from_le_bytes(b) == le_value(b, 1)

\* u64::to_le_bytes
to_le_bytes(v) == [i \in 1..8 |-> (v \div (U8_MAX + 1)^(i - 1)) % (U8_MAX + 1)]

\* data[from..to]: panics when the range ends past the slice
Slice(data, from, to) ==
    IF to <= Len(data) THEN Ok(SubSeq(data, from + 1, to)) ELSE Panicked

\* the body of parse_bonding_curve with the length it requires and the
\* offset of real_sol_reserves as parameters
parse_variant(data, required_len, rsr_offset) ==
    IF Len(data) < required_len THEN Failed
    ELSE
    LET vtr == Slice(data, 8, 16)
        vsr == Slice(data, 16, 24)
        rtr == Slice(data, 24, 32)
        rsr == Slice(data, rsr_offset, rsr_offset + 8)
        tts == Slice(data, 40, 48)
        flag == Slice(data, 48, 49)
        creator == Slice(data, 49, 81)
    IN  IF \E x \in {vtr, vsr, rtr, rsr, tts, flag, creator} : x.panic
        THEN Panicked
        ELSE Ok([virtual_token_reserves |-> from_le_bytes(vtr.val),
                 virtual_sol_reserves   |-> from_le_bytes(vsr.val),
                 real_token_reserves    |-> from_le_bytes(rtr.val),
                 real_sol_reserves      |-> from_le_bytes(rsr.val),
                 token_total_supply     |-> from_le_bytes(tts.val),
                 complete               |-> flag.val[1] # 0,
                 creator                |-> creator.val])

\* parse_bonding_curve that only requires the 49 bytes before the creator
parse_bonding_curve_short(data) == parse_variant(data, 49, 32)

\* parse_bonding_curve reading real_sol_reserves at the offset of
\* real_token_reserves
parse_bonding_curve_shifted(data) == parse_variant(data, 81, 24)

parse_bonding_curve(data) ==
    IF Len(data) < 81 THEN Failed
    ELSE
    LET vtr == Slice(data, 8, 16)
        vsr == Slice(data, 16, 24)
        rtr == Slice(data, 24, 32)
        rsr == Slice(data, 32, 40)
        tts == Slice(data, 40, 48)
        flag == Slice(data, 48, 49)
        creator == Slice(data, 49, 81)
    IN  IF \E x \in {vtr, vsr, rtr, rsr, tts, flag, creator} : x.panic
        THEN Panicked
        ELSE Ok([virtual_token_reserves |-> from_le_bytes(vtr.val),
                 virtual_sol_reserves   |-> from_le_bytes(vsr.val),
                 real_token_reserves    |-> from_le_bytes(rtr.val),
                 real_sol_reserves      |-> from_le_bytes(rsr.val),
                 token_total_supply     |-> from_le_bytes(tts.val),
                 complete               |-> flag.val[1] # 0,
                 creator                |-> creator.val])

\* the largest value eight bytes hold
LE_MAX == (U8_MAX + 1)^8 - 1

\* n copies of the byte b
Fill(n, b) == [i \in 1..n |-> b]

\* hand-constructed account images: a discriminator, five u64 written
\* little-endian, the flag byte, the creator, and trailing bytes
Image(disc, f, flag, creator, trail) ==
    disc \o to_le_bytes(f[1]) \o to_le_bytes(f[2]) \o to_le_bytes(f[3])
         \o to_le_bytes(f[4]) \o to_le_bytes(f[5]) \o <<flag>> \o creator \o trail

Discriminators == {Fill(8, 0), <<3, 2, 1, 0, 1, 2, 3, 1>>}

FieldValues ==
    {0, 27, LE_MAX} \X {1, LE_MAX} \X {5, 228} \X {U8_MAX + 1} \X {LE_MAX - 1}

Creators == {Fill(32, 0), [i \in 1..32 |-> i % (U8_MAX + 1)]}

Images ==
    {Image(d, f, flag, c, Fill(4, 1)) :
        d \in Discriminators, f \in FieldValues, flag \in {0, 1, U8_MAX},
        c \in Creators}

\* the lengths an account is received with
DataLens == {0, 48, 49, 80, 81, 82, 85}

Buffers == {SubSeq(img, 1, n) : img \in Images, n \in DataLens}

ParseBondingCurve ==
    /\ Running
    /\ Record(Call("parse_bonding_curve", Len(account_data), 0, FALSE,
                   parse_bonding_curve(account_data)))

InitDecode ==
    /\ global = Global_default
    /\ bonding_curve = None
    /\ overflow_checks \in BOOLEAN
    /\ last = NoCall
    /\ prev = NoCall
    /\ account_data \in Buffers
    /\ sell = NotSelling

NextDecode == ParseBondingCurve

SpecDecode == InitDecode /\ [][NextDecode]_vars

----------------------------------------------------------------------------
(* run_pump_sell (src/src/pump_sell.rs) *)

\* `let mut token_amount: u64 = 1000`
InitialTokenAmount == 1000

\* `let min_sol_output: u64 = 0`
min_sol_output == 0

\* what the account at the user's associated token address can hold: the
\* amount field of a token account is the u64 at bytes 64..72
TokenBalances == {0, 999, InitialTokenAmount, 1001}

TokenAccountLens == {0, 71, 72, 165}

TokenAccount(len, balance) ==
    SubSeq(Fill(64, 1) \o to_le_bytes(balance) \o Fill(93, 2), 1, len)

\* get_account(&associated_user): no account, or an account with its data
AtaInfos ==
    {None} \cup {Some(TokenAccount(len, b)) :
                    len \in TokenAccountLens, b \in TokenBalances}

\* get_account(&bonding_curve): no account, or an account with its data
BondingCurveInfos == {None, Some(Fill(80, 0)), Some(Fill(81, 1))}

parse_creator_from_bonding_curve(data) ==
    IF Len(data) < 49 + 32 THEN Failed ELSE Ok(SubSeq(data, 50, 81))

\* `return Err(...)` and the `?` operator on an Err
ReturnErr == [sell EXCEPT !.pc = "returned", !.result = "Err"]

Goto(pc) == [sell EXCEPT !.pc = pc]

SellStep(s) ==
    /\ sell' = s
    /\ UNCHANGED <<global, bonding_curve, overflow_checks, last, prev, account_data>>

\* load_wallet_from_private_key(PRIVATE_KEY)?
LoadWallet ==
    /\ sell.pc = "load_wallet"
    /\ \E ok \in BOOLEAN : SellStep(IF ok THEN Goto("get_balance") ELSE ReturnErr)

\* connection.get_balance(&user.pubkey())?
GetBalance ==
    /\ sell.pc = "get_balance"
    /\ \E ok \in BOOLEAN : SellStep(IF ok THEN Goto("get_mint") ELSE ReturnErr)

\* connection.get_account(&mint).map_err(...)?
GetMintInfo ==
    /\ sell.pc = "get_mint"
    /\ \E ok \in BOOLEAN : SellStep(IF ok THEN Goto("get_ata") ELSE ReturnErr)

\* match connection.get_account(&associated_user) { ... }
CheckTokenBalance(ata_info) ==
    IF ~ata_info.some THEN ReturnErr
    ELSE IF Len(ata_info.val) >= 72
    THEN LET amount_bytes == Slice(ata_info.val, 64, 72).val
             token_balance == from_le_bytes(amount_bytes)
         IN  IF token_balance = 0 THEN ReturnErr
             ELSE IF token_balance < sell.token_amount THEN ReturnErr
             ELSE [sell EXCEPT !.pc = "get_bonding_curve",
                               !.token_balance = Some(token_balance),
                               !.token_amount = token_balance]
    ELSE Goto("get_bonding_curve")

GetTokenAccount ==
    /\ sell.pc = "get_ata"
    /\ SellStep(CheckTokenBalance(sell.ata_info))

\* connection.get_account(&bonding_curve)? and the creator parsed from it
GetBondingCurve ==
    /\ sell.pc = "get_bonding_curve"
    /\ SellStep(IF ~sell.bonding_curve_info.some THEN ReturnErr
                ELSE LET creator ==
                             parse_creator_from_bonding_curve(sell.bonding_curve_info.val)
                     IN  IF creator.err THEN ReturnErr
                         ELSE Goto("create_sell_instruction"))

\* create_sell_instruction(SellAccounts {..}, SellArgs {..})
CreateSellInstruction ==
    /\ sell.pc = "create_sell_instruction"
    /\ SellStep([sell EXCEPT !.pc = "get_latest_blockhash",
                             !.sell_ix = Some([amount |-> sell.token_amount,
                                               min_sol_output |-> min_sol_output])])

\* connection.get_latest_blockhash()? and Transaction::new_signed_with_payer
BuildTransaction ==
    /\ sell.pc = "get_latest_blockhash"
    /\ \E ok \in BOOLEAN :
        SellStep(IF ok THEN [sell EXCEPT !.pc = "send_transaction",
                                         !.transaction = sell.sell_ix]
                 ELSE ReturnErr)

\* connection.send_transaction(&transaction): both arms print and fall
\* through to Ok(())
SendTransaction ==
    /\ sell.pc = "send_transaction"
    /\ \E ok \in BOOLEAN :
        SellStep([sell EXCEPT !.pc = "returned", !.result = "Ok", !.sent = ok])

InitSell ==
    /\ global = Global_default
    /\ bonding_curve = None
    /\ overflow_checks \in BOOLEAN
    /\ last = NoCall
    /\ prev = NoCall
    /\ account_data = <<>>
    /\ \E a \in AtaInfos, b \in BondingCurveInfos :
        sell = [pc |-> "load_wallet",
                ata_info |-> a,
                bonding_curve_info |-> b,
                token_amount |-> InitialTokenAmount,
                token_balance |-> None,
                sell_ix |-> None,
                transaction |-> None,
                sent |-> FALSE,
                result |-> "running"]

NextSell ==
    \/ LoadWallet
    \/ GetBalance
    \/ GetMintInfo
    \/ GetTokenAccount
    \/ GetBondingCurve
    \/ CreateSellInstruction
    \/ BuildTransaction
    \/ SendTransaction

SpecSell == InitSell /\ [][NextSell]_vars

----------------------------------------------------------------------------
(* Properties *)

\* the curve a quote prices: the supplied one, or the fresh one
Priced == curve_of(global, bonding_curve)

\* the creator fee is charged on the snapshot
CreatorCharged == is_new_of(bonding_curve) \/ Priced.creator # Pubkey_default

\* C1: compute_fee(amount, bps) is exactly ceil(amount * bps / 10000), so it
\* is at least the floor, it is 0 when amount is 0 or bps is 0, and it is
\* never 0 when both are positive.
C1_FeeIsExactCeil ==
    last.op = "compute_fee" =>
        LET amount == last.arg
            bps == last.arg2
            fee == last.out.val
        IN  /\ fee * BPS_DENOMINATOR >= amount * bps
            /\ fee * BPS_DENOMINATOR < amount * bps + BPS_DENOMINATOR
            /\ fee >= (amount * bps) \div BPS_DENOMINATOR
            /\ (amount = 0 => fee = 0)
            /\ (bps = 0 => fee = 0)
            /\ (amount > 0 /\ bps > 0 => fee # 0)

\* two successive calls of the same forward quote (A or C) on the snapshot
SameQuoteTwice ==
    /\ last.op \in {"get_tokens_for_sol", "get_sol_from_tokens"}
    /\ prev.op = last.op
    /\ ~last.out.panic

\* C2 as stated: Quote A and Quote C are non-decreasing in their amount,
\* whatever the parameters and the curve.
C2_MonotoneAlways ==
    SameQuoteTwice /\ prev.arg <= last.arg => prev.out.val <= last.out.val

\* at most one of the two fees is charged at a non-zero rate, and no rate
\* charged exceeds 100%
SingleFee ==
    LET f == global.fee_basis_points
        c == IF CreatorCharged THEN global.creator_fee_basis_points ELSE 0
    IN  /\ f = 0 \/ c = 0
        /\ f <= BPS_DENOMINATOR
        /\ c <= BPS_DENOMINATOR

\* C2 amended: Quote A and Quote C are non-decreasing in their amount when
\* at most one of the platform fee and the creator fee is charged at a
\* non-zero rate and that rate is at most 10000 basis points.
C2_MonotoneSingleFee ==
    SingleFee /\ SameQuoteTwice /\ prev.arg <= last.arg
        => prev.out.val <= last.out.val

C2_Witness ==
    /\ SingleFee
    /\ SameQuoteTwice
    /\ global.fee_basis_points > 0
    /\ prev.arg < last.arg
    /\ 0 < prev.out.val
    /\ prev.out.val < last.out.val

\* Quote A was called on the cost Quote B returned
AAfterB ==
    /\ last.op = "get_tokens_for_sol"
    /\ last.chained
    /\ prev.op = "get_sol_for_tokens"
    /\ ~last.out.panic

\* C3 as stated: Quote A on the cost Quote B returned for t tokens yields
\* at least t tokens.
C3_InverseNeverUnderDelivers ==
    AAfterB => last.out.val >= prev.arg

\* the request t can be filled and its pre-fee cost fits the word
Fillable(t) ==
    /\ t > 0
    /\ t <= Priced.real_token_reserves
    /\ t < Priced.virtual_token_reserves
    /\ (Priced.virtual_sol_reserves * t)
           \div (Priced.virtual_token_reserves - t) + 1 <= U64_MAX

\* C3 amended: when both fee rates are 0, t is at most real_token_reserves
\* and below virtual_token_reserves, and the cost
\* floor(virtual_sol_reserves * t / (virtual_token_reserves - t)) + 1 fits
\* u64, Quote A on the cost Quote B returned for t yields at least t.
C3_InverseFeeFree ==
    /\ AAfterB
    /\ global.fee_basis_points = 0
    /\ global.creator_fee_basis_points = 0
    /\ Fillable(prev.arg)
    => last.out.val >= prev.arg

C3_Witness ==
    /\ AAfterB
    /\ global.fee_basis_points = 0
    /\ global.creator_fee_basis_points = 0
    /\ Fillable(prev.arg)
    /\ prev.out.val > 1
    /\ last.arg = prev.out.val
    /\ last.out.val >= prev.arg

\* C4: none of the four quote operations panics, on any input.
C4_QuotesNeverPanic ==
    last.op \in QuoteOps \cup {"quote_sell"} => ~last.out.panic

\* C5: for a non-zero amount, Quote A and Quote B return 0 when
\* virtual_token_reserves is 0, and Quote C and the net amount of Quote D
\* return 0 when either virtual reserve is 0, without dividing by zero.
C5_UnpriceableCurveQuotesZero ==
    /\ last.op \in {"get_tokens_for_sol", "get_sol_for_tokens"}
       /\ last.arg # 0
       /\ Priced.virtual_token_reserves = 0
       => ~last.out.panic /\ last.out.val = 0
    /\ last.op = "get_sol_from_tokens"
       /\ last.arg # 0
       /\ (Priced.virtual_token_reserves = 0 \/ Priced.virtual_sol_reserves = 0)
       => ~last.out.panic /\ last.out.val = 0
    /\ last.op = "quote_sell"
       /\ last.arg # 0
       /\ bonding_curve.some
       /\ (bonding_curve.val.virtual_token_reserves = 0
              \/ bonding_curve.val.virtual_sol_reserves = 0)
       => ~last.out.panic /\ last.out.val = 0

\* C6: what Quote A returns is at most the real_token_reserves of the curve
\* it priced.
C6_TokensCappedAtRealReserves ==
    last.op = "get_tokens_for_sol" /\ ~last.out.panic
        => last.out.val <= Priced.real_token_reserves

\* the constant-product amount exceeded the reserves and the cap acted
C6_Witness ==
    /\ last.op = "get_tokens_for_sol"
    /\ ~last.out.panic
    /\ last.out.val = Priced.real_token_reserves
    /\ last.out.val > 0
    /\ get_tokens_for_sol_nocap(global, bonding_curve, last.arg).val
           > Priced.real_token_reserves

\* C7: on a curve with virtual_token_reserves > 0, for token_amount > 0 with
\* a positive denominator, Quote B returns sol_cost + total_fee(sol_cost)
\* with sol_cost exactly floor(vsr * capped / denominator) + 1, nothing lost
\* in the narrowing; the result is positive and not below the true quotient.
C7_CostIsQuotientPlusOnePlusFee ==
    LET capped == min(last.arg, Priced.real_token_reserves)
        denominator == Priced.virtual_token_reserves - capped
        sol_cost == (Priced.virtual_sol_reserves * capped) \div denominator + 1
    IN  /\ last.op = "get_sol_for_tokens"
        /\ last.arg > 0
        /\ Priced.virtual_token_reserves > 0
        /\ denominator > 0
        =>  /\ ~last.out.panic
            /\ sol_cost <= U64_MAX
            /\ last.out.val > 0
            /\ last.out.val * denominator >= Priced.virtual_sol_reserves * capped
            /\ last.out.val =
                   sol_cost
                       + compute_fee(sol_cost, global.fee_basis_points)
                       + (IF CreatorCharged
                          THEN compute_fee(sol_cost, global.creator_fee_basis_points)
                          ELSE 0)

\* the request drains the curve to its virtual reserves
DenominatorCollapsed ==
    /\ last.op = "get_sol_for_tokens"
    /\ last.arg > 0
    /\ Priced.virtual_token_reserves > 0
    /\ min(last.arg, Priced.real_token_reserves) >= Priced.virtual_token_reserves

\* C8: Quote B returns the sentinel u64::MAX, and does not divide by zero,
\* when the capped amount reaches virtual_token_reserves.
C8_SentinelOnCollapsedDenominator ==
    DenominatorCollapsed => ~last.out.panic /\ last.out.val = U64_MAX

C8_Witness ==
    DenominatorCollapsed /\ bonding_curve.some /\ last.out.val = U64_MAX

\* C9: total_fee includes the creator fee exactly when no curve was passed
\* or the curve's creator is not the default identity; it is then
\* compute_fee(amount, creator_fee_basis_points) on top of the platform
\* fee, and otherwise total_fee is the platform fee alone.  (The sum is the
\* u64 sum: it wraps in a build without overflow checks.)
C9_CreatorFeeEligibility ==
    last.op = "get_fee" /\ ~last.out.panic =>
        LET platform == compute_fee(last.arg, global.fee_basis_points)
            creator == compute_fee(last.arg, global.creator_fee_basis_points)
        IN  IF ~bonding_curve.some THEN last.out.val = AsU64(platform + creator)
            ELSE IF bonding_curve.val.creator # Pubkey_default
                 THEN last.out.val = AsU64(platform + creator)
                 ELSE last.out.val = platform

\* a get_fee step on a supplied curve without a creator: the creator fee
\* is left out although its rate is positive
C9_Witness ==
    /\ last.op = "get_fee"
    /\ ~last.out.panic
    /\ bonding_curve.some
    /\ bonding_curve.val.creator = Pubkey_default
    /\ global.creator_fee_basis_points > 0
    /\ global.fee_basis_points > 0
    /\ last.arg > 0
    /\ last.out.val = compute_fee(last.arg, global.fee_basis_points)
    /\ last.out.val > 0

\* C10: Quote A, Quote B and Quote C return 0 for the amount 0, for any
\* parameters and any curve.
C10_ZeroAmountQuotesZero ==
    last.op \in QuoteOps /\ last.arg = 0 => ~last.out.panic /\ last.out.val = 0

\* Quote B on the amount 0 on a curve that would otherwise be priced
C10_Witness ==
    /\ last.op = "get_sol_for_tokens"
    /\ last.arg = 0
    /\ last.out.val = 0
    /\ ~last.out.panic
    /\ Priced.virtual_token_reserves > 0

\* the same quote was called twice with the same amount, on snapshots that
\* differ only in the complete flag
SameQuoteOtherFlag ==
    /\ last.op \in QuoteOps
    /\ prev.op = last.op
    /\ prev.arg = last.arg
    /\ prev.complete # last.complete

\* C11: two supplied curves that differ only in complete get identical
\* results from Quote A, Quote B and Quote C, for every parameters and
\* amount.
C11_CompleteFlagIgnored ==
    SameQuoteOtherFlag => last.out = prev.out

C11_Witness ==
    /\ SameQuoteOtherFlag
    /\ last.op = "get_sol_from_tokens"
    /\ last.complete
    /\ last.out.val > 0
    /\ last.out = prev.out

\* C12: decoding a buffer shorter than 81 bytes returns an error and no
\* curve state; decoding a buffer of 81 bytes or more never returns an
\* error.
C12_DecodeLengthCheck ==
    last.op = "parse_bonding_curve" =>
        IF Len(account_data) < 81
        THEN last.out = Failed
        ELSE ~last.out.err /\ ~last.out.panic

\* both sides of the boundary were decoded: 80 bytes failed here
C12_Witness ==
    /\ last.op = "parse_bonding_curve"
    /\ Len(account_data) = 80
    /\ last.out.err

\* C13: decoding a buffer of five u64 written little-endian at offsets 8,
\* 16, 24, 32, 40, a flag byte at 48 and a 32-byte identity at 49 gives
\* back each field exactly, complete being "the byte is non-zero",
\* whatever the 8 discriminator bytes are.
C13_DecodeRoundTrip ==
    last.op = "parse_bonding_curve" /\ Len(account_data) >= 81 =>
        LET c == last.out.val
        IN  /\ ~last.out.err /\ ~last.out.panic
            /\ to_le_bytes(c.virtual_token_reserves) = SubSeq(account_data, 9, 16)
            /\ to_le_bytes(c.virtual_sol_reserves) = SubSeq(account_data, 17, 24)
            /\ to_le_bytes(c.real_token_reserves) = SubSeq(account_data, 25, 32)
            /\ to_le_bytes(c.real_sol_reserves) = SubSeq(account_data, 33, 40)
            /\ to_le_bytes(c.token_total_supply) = SubSeq(account_data, 41, 48)
            /\ c.complete = (account_data[49] # 0)
            /\ c.creator = SubSeq(account_data, 50, 81)
            /\ <<c.virtual_token_reserves, c.virtual_sol_reserves,
                  c.real_token_reserves, c.real_sol_reserves,
                  c.token_total_supply>> \in FieldValues

\* an image of exactly 81 bytes with a non-zero discriminator, a flag byte
\* other than 0 and 1, and a field with all eight bytes set
C13_Witness ==
    /\ last.op = "parse_bonding_curve"
    /\ Len(account_data) = 81
    /\ account_data[1] # 0
    /\ account_data[49] > 1
    /\ last.out.val.complete
    /\ last.out.val.virtual_sol_reserves = LE_MAX
    /\ last.out.val.real_token_reserves = 228

\* Quote D was called with a positive amount on an existing curve whose
\* virtual reserves are both non-zero
SellQuotedOnLiveCurve ==
    /\ last.op = "quote_sell"
    /\ last.arg > 0
    /\ bonding_curve.some
    /\ bonding_curve.val.virtual_token_reserves # 0
    /\ bonding_curve.val.virtual_sol_reserves # 0

\* C14: on such a curve Quote D returns (net_sol, fee) with fee the
\* total_fee of gross = floor(vsr * token_amount / (vtr + token_amount))
\* under the pre-existing-curve rule, net_sol = gross saturating-minus fee,
\* and net_sol is what Quote C returns for the same curve supplied (under
\* the default parameters, the ones Quote D prices with).
C14_GrossSellQuoteMatchesSellQuote ==
    SellQuotedOnLiveCurve =>
        LET c == bonding_curve.val
            gross == (c.virtual_sol_reserves * last.arg)
                         \div (c.virtual_token_reserves + last.arg)
            platform == ceil_div(gross * Global_default.fee_basis_points,
                                 BPS_DENOMINATOR)
            creator == IF c.creator # Pubkey_default
                       THEN ceil_div(gross * Global_default.creator_fee_basis_points,
                                     BPS_DENOMINATOR)
                       ELSE 0
        IN  /\ ~last.out.panic
            /\ ~last.out.err
            /\ last.out.val2 = platform + creator
            /\ last.out.val = saturating_sub(gross, platform + creator)
            /\ last.out.val =
                   get_sol_from_tokens(Global_default, bonding_curve, last.arg).val
            /\ (prev.op = "get_sol_from_tokens" /\ prev.arg = last.arg
                    /\ global = Global_default
                    => last.out.val = prev.out.val)

\* Quote C, then Quote D on the same amount, on a curve without a creator
C14_Witness ==
    /\ SellQuotedOnLiveCurve
    /\ bonding_curve.val.creator = Pubkey_default
    /\ global = Global_default
    /\ prev.op = "get_sol_from_tokens"
    /\ prev.arg = last.arg
    /\ last.out.val2 > 0
    /\ last.out.val > 0
    /\ last.out.val = prev.out.val

\* C15: with the default parameters Quote A on 1 SOL returns a strictly
\* positive token amount below initial_virtual_token_reserves, with no
\* curve supplied and with the curve new_bonding_curve builds from the
\* defaults.
C15_DefaultBuyQuoteInRange ==
    /\ global = Global_default
    /\ bonding_curve \in DefaultCurveOpts
    /\ (last.op = "get_tokens_for_sol" /\ last.arg = TestSolAmount =>
            /\ ~last.out.panic
            /\ last.out.val > 0
            /\ last.out.val < Global_default.initial_virtual_token_reserves)

\* 1 SOL was quoted on the curve built from the defaults, which has no
\* creator to pay and so yields more tokens than no curve does
C15_Witness ==
    /\ last.op = "get_tokens_for_sol"
    /\ last.arg = TestSolAmount
    /\ bonding_curve = Some(new_bonding_curve(Global_default))
    /\ last.out.val > get_tokens_for_sol(Global_default, None, TestSolAmount).val
    /\ get_tokens_for_sol(Global_default, None, TestSolAmount).val > 0

\* C16: with the default parameters Quote C on 1M tokens returns a
\* strictly positive lamport amount, with no curve supplied and with the
\* curve new_bonding_curve builds from the defaults.
C16_DefaultSellQuotePositive ==
    /\ global = Global_default
    /\ bonding_curve \in DefaultCurveOpts
    /\ (last.op = "get_sol_from_tokens" /\ last.arg = TestTokenAmount =>
            /\ ~last.out.panic
            /\ last.out.val > 0)

\* 1M tokens were quoted with no curve supplied, which charges the creator
\* fee and so pays less than the curve built from the defaults
C16_Witness ==
    /\ last.op = "get_sol_from_tokens"
    /\ last.arg = TestTokenAmount
    /\ bonding_curve = None
    /\ last.out.val > 0
    /\ last.out.val < get_sol_from_tokens(Global_default,
                           Some(new_bonding_curve(Global_default)),
                           TestTokenAmount).val

\* a call of Quote A, B or C leaves the parameters and the snapshot as they
\* were and returns what the quote returns on those inputs alone
PureStep ==
    /\ global' = global
    /\ bonding_curve' = bonding_curve
    /\ (last'.op \in QuoteOps =>
            last'.out = QuoteBy(last'.op, global, bonding_curve, last'.arg))
    /\ (last'.op = last.op /\ last'.arg = last.arg => last'.out = last.out)

CostOfQuotedTokens ==
    /\ last.op = "get_sol_for_tokens"
    /\ last.chained
    /\ prev.op = "get_tokens_for_sol"
    /\ bonding_curve.some

\* C18: for every supplied curve and every sol_amount s the cost Quote B
\* returns for the tokens Quote A returned on s never exceeds s:
\* B(A(s)) <= s.
C18_InverseCostWithinBudget ==
    CostOfQuotedTokens => ~last.out.panic /\ last.out.val <= prev.arg

\* Quote C was called on the token amount Quote A returned on the same
\* snapshot (prev.arg is the SOL amount that was quoted)
SoldQuotedTokens ==
    /\ last.op = "get_sol_from_tokens"
    /\ last.chained
    /\ prev.op = "get_tokens_for_sol"

\* C19: no round-trip profit on one snapshot: for every parameters, curve
\* (absent or supplied) and sol_amount s, Quote C on the tokens Quote A
\* returned for s returns at most s.
C19_NoRoundTripProfit ==
    SoldQuotedTokens => ~last.out.panic /\ last.out.val <= prev.arg

\* a round trip that returns something, and less than was paid
C19_Witness ==
    /\ SoldQuotedTokens
    /\ last.arg = prev.out.val
    /\ last.arg > 0
    /\ last.out.val > 0
    /\ last.out.val < prev.arg

\* the balance run_pump_sell read from the user's token account, if it
\* read one
BalanceRead == sell.token_balance.some

\* a sell instruction, a transaction, or a send exists
SellUnderWay == sell.sell_ix.some \/ sell.transaction.some \/ sell.sent

\* C20: run_pump_sell sends a sell transaction only after the user's token
\* account was fetched and its balance read and found non-zero and at
\* least the configured amount, and the amount in the sell instruction is
\* that balance; when the account is missing, or the balance is 0 or below
\* the configured amount, it returns an error before a transaction is
\* built or sent.
C20_SellOnlyAfterBalanceCheck ==
    /\ (sell.transaction.some \/ sell.sent =>
            /\ sell.ata_info.some
            /\ BalanceRead
            /\ sell.token_balance.val # 0
            /\ sell.token_balance.val >= InitialTokenAmount
            /\ sell.sell_ix.val.amount = sell.token_balance.val)
    /\ (~sell.ata_info.some /\ sell.pc \notin {"load_wallet", "get_balance",
                                                "get_mint", "get_ata"}
            => sell.result = "Err" /\ ~SellUnderWay)

============================================================================
